---- MODULE Spec2Model ----
(***************************************************************************)
(* Model of enhanced_burst_generator.py: a pool of listening endpoints    *)
(* (Server / server_thread), a burst of retrying client drivers           *)
(* (Client / client_thread) and the main program that sequences them.     *)
(* Every thread of the program is a process of the model; one action is   *)
(* one step a thread takes between two points where another thread can    *)
(* observe it.                                                             *)
(***************************************************************************)
EXTENDS Integers, Sequences, FiniteSets, Bags, TLC

\* ----- program constants -----
\* the literal 65535 of the allocation loop; also the largest port bind() takes
MaxPortNumber == 65535

\* ----- bounds of the model -----
\* -s, -t, -c are drawn from 1..MaxServers, 1..MaxThreads, 1..MaxClients
MaxServers == 2
MaxThreads == 2
MaxClients == 2

\* the base port is drawn from the end of the port range: the lowest one leaves
\* room for MaxServers endpoints below port 65535, the highest one is 65535
Ports == (MaxPortNumber - MaxServers - 1)..MaxPortNumber

VARIABLES
    PORT,        \* -p: the base port handed to Server.start
    SERVER_NUM,  \* -s: Server.s_n
    THREAD_NUM,  \* -t: Server.threads
    CLIENT_NUM,  \* -c: Client.c_n
    main_pc,     \* position of the main thread
    error,       \* the exception that ended the main thread, "none" if none
    s_port,      \* Server.start: next port to try
    s_counter,   \* Server.start: successes so far
    s_ports,     \* Server.start: ports bound so far; main's s_ports after return
    s_list,      \* Server.s_list: indices into endpoints
    bind_log,    \* every server_thread(port, ...) construction attempted, in order
    endpoints,   \* the server_thread objects, in order of construction
    c_list,      \* Client.c_list: the client ids launched so far
    clients,     \* the client_thread objects, by id
    loop_i,      \* index of the for loop the main thread is in (join, stop)
    recv_log     \* bag of the payloads acceptor workers have read: <<port, client>>

vars == <<PORT, SERVER_NUM, THREAD_NUM, CLIENT_NUM, main_pc, error,
          s_port, s_counter, s_ports, s_list, bind_log, endpoints, c_list,
          clients, loop_i, recv_log>>

config == <<PORT, SERVER_NUM, THREAD_NUM, CLIENT_NUM>>
server_locals == <<s_port, s_counter, s_ports, s_list, bind_log>>

\* ----- SERVER -----

\* socket.bind((host, port)): a port above 65535 is rejected by the socket
\* module (OverflowError); any other port is bound, or is held by another
\* socket of the machine and the kernel refuses it (OSError)
BindOutcomes(port) ==
    IF port > MaxPortNumber THEN {"OverflowError"} ELSE {"ok", "OSError"}

\* server_thread.__init__ without the listen() call
server_thread_init_nolisten(port, threads) ==
    [port    |-> port,
     threads |-> threads,
     sock    |-> "bound",
     backlog_cap |-> threads,
     backlog |-> <<>>,
     lock    |-> FALSE,
     run_pc  |-> "new",
     workers |-> EmptyBag]

\* server_thread.__init__ once bind() has succeeded: an unlocked lock, a socket
\* bound and listening with a backlog of `threads`, the thread not started
server_thread_init(port, threads) ==
    [port    |-> port,
     threads |-> threads,
     sock    |-> "listening",
     backlog_cap |-> threads,
     backlog |-> <<>>,
     lock    |-> FALSE,
     run_pc  |-> "new",
     workers |-> EmptyBag]

\* the while loop of Server.start stopping on the success counter alone
StartLoopCond_counter(counter, n, port) ==
    counter < n

\* the condition of the while loop of Server.start
StartLoopCond(counter, n, port) ==
    counter < n \/ port >= MaxPortNumber

Init ==
    /\ PORT \in Ports
    /\ SERVER_NUM \in 1..MaxServers
    /\ THREAD_NUM \in 1..MaxThreads
    /\ CLIENT_NUM \in 1..MaxClients
    /\ main_pc = "server_start"
    /\ error = "none"
    /\ s_port = PORT
    /\ s_counter = 0
    /\ s_ports = <<>>
    /\ s_list = <<>>
    /\ bind_log = <<>>
    /\ endpoints = <<>>
    /\ c_list = <<>>
    /\ clients = [c \in 1..CLIENT_NUM |-> [port |-> 0, pc |-> "idle", sends |-> 0, open |-> FALSE]]
    /\ loop_i = 0
    /\ recv_log = EmptyBag

\* One iteration of the while loop of Server.start. The try block has no except
\* clause: when the constructor raises, finally runs and the exception leaves
\* start and the main program.
ServerStartIter ==
    /\ main_pc = "server_start"
    /\ StartLoopCond(s_counter, SERVER_NUM, s_port)
    /\ \E res \in BindOutcomes(s_port) :
         /\ bind_log' = Append(bind_log, [port |-> s_port, res |-> res])
         /\ IF res = "ok"
            THEN /\ endpoints' = Append(endpoints,
                         [server_thread_init(s_port, THREAD_NUM) EXCEPT !.run_pc = "launch"])
                 /\ s_list' = Append(s_list, Len(endpoints) + 1)
                 /\ s_ports' = Append(s_ports, s_port)
                 /\ s_counter' = s_counter + 1
                 /\ UNCHANGED <<main_pc, error>>
            ELSE /\ main_pc' = "raised"
                 /\ error' = res
                 /\ UNCHANGED <<endpoints, s_list, s_ports, s_counter>>
    /\ s_port' = s_port + 1
    /\ UNCHANGED <<config, c_list, clients, loop_i, recv_log>>

\* The loop condition is false: start returns s_ports, and the main program
\* raises NO_PORT_TO_USE when the list is empty, else constructs the Client.
ServerStartReturn ==
    /\ main_pc = "server_start"
    /\ ~StartLoopCond(s_counter, SERVER_NUM, s_port)
    /\ IF Len(s_ports) = 0
       THEN main_pc' = "raised" /\ error' = "NO_PORT_TO_USE"
       ELSE main_pc' = "client_start" /\ UNCHANGED error
    /\ UNCHANGED <<config, server_locals, endpoints, c_list, clients, loop_i, recv_log>>

\* The acceptor workers of one endpoint run the same code on the same socket and
\* differ in nothing else, so an endpoint keeps them as a bag of positions:
\* AtAccept for a worker in sock.accept(), entered while the socket was open;
\* AtClosed for a worker whose sock.accept() finds the socket object closed;
\* c for a worker in con.recv(16) on the connection of client c.
AtAccept == 0
AtClosed == 0 - 1

\* server_thread.run with a for loop that starts one worker too few
CoordLaunch_short(i) ==
    /\ i \in 1..Len(endpoints)
    /\ endpoints[i].run_pc = "launch"
    /\ endpoints' = [endpoints EXCEPT
            ![i].run_pc = "acquire2",
            ![i].lock = TRUE,
            ![i].workers = IF endpoints[i].threads = 1 THEN EmptyBag
                           ELSE [x \in {AtAccept} |-> endpoints[i].threads - 1]]
    /\ UNCHANGED <<config, main_pc, error, server_locals, c_list, clients, loop_i, recv_log>>

\* server_thread.run, the for loop and the first lock.acquire(): `threads`
\* acceptor workers are started and the lock is taken. The first acquire cannot
\* block (no other thread ever acquires this lock), and the one other access
\* to the lock, the release() of stop, finds it free whether it comes before the
\* for loop or between the loop and the acquire, so the two are one step: until
\* it is taken the coordinator has not acquired and stop's release() raises.
CoordLaunch(i) ==
    /\ i \in 1..Len(endpoints)
    /\ endpoints[i].run_pc = "launch"
    /\ ~endpoints[i].lock
    /\ endpoints' = [endpoints EXCEPT ![i].run_pc = "acquire2",
                                      ![i].lock = TRUE,
                                      ![i].workers = [x \in {AtAccept} |-> endpoints[i].threads]]
    /\ UNCHANGED <<config, main_pc, error, server_locals, c_list, clients, loop_i, recv_log>>

\* server_thread.run, the second lock.acquire(): blocks while the lock is held,
\* then run returns
CoordAcquire(i) ==
    /\ i \in 1..Len(endpoints)
    /\ endpoints[i].run_pc = "acquire2"
    /\ ~endpoints[i].lock
    /\ endpoints' = [endpoints EXCEPT ![i].lock = TRUE, ![i].run_pc = "done"]
    /\ UNCHANGED <<config, main_pc, error, server_locals, c_list, clients, loop_i, recv_log>>

\* server_thread.__run__, sock.accept() returning a queued connection.
\* sock.close() in the main thread does not interrupt an accept() that a worker
\* has already entered: that call keeps the listening socket and can still
\* return a connection of its queue, it can stay blocked, or the worker had not
\* entered it yet and fails (WorkerAcceptFail). Which one happens is the
\* platform's and the scheduler's choice, so a worker at AtAccept may take a
\* queued connection whatever the state of the socket object.
WorkerAccept(i) ==
    /\ i \in 1..Len(endpoints)
    /\ BagIn(AtAccept, endpoints[i].workers)
    /\ endpoints[i].sock \in {"listening", "closed"}
    /\ endpoints[i].backlog # <<>>
    /\ endpoints' = [endpoints EXCEPT
            ![i].workers = (@ (-) SetToBag({AtAccept})) (+) SetToBag({Head(endpoints[i].backlog)}),
            ![i].backlog = Tail(endpoints[i].backlog)]
    /\ UNCHANGED <<config, main_pc, error, server_locals, c_list, clients, loop_i, recv_log>>

\* the position of a worker that loops back to sock.accept()
NextAccept(sock) == IF sock = "closed" THEN AtClosed ELSE AtAccept

\* server_thread.__run__ returning after its first con.recv(16)
WorkerRecv_once(i, c) ==
    /\ i \in 1..Len(endpoints)
    /\ c \in 1..CLIENT_NUM
    /\ BagIn(c, endpoints[i].workers)
    /\ clients[c].pc \in {"sent", "done"}
    /\ recv_log' = recv_log (+) SetToBag({<<endpoints[i].port, c>>})
    /\ endpoints' = [endpoints EXCEPT ![i].workers = @ (-) SetToBag({c})]
    /\ UNCHANGED <<config, main_pc, error, server_locals, c_list, clients, loop_i>>

\* server_thread.__run__, con.recv(16): blocks until the peer has sent; the
\* data is dropped and the worker loops back to accept()
WorkerRecv(i, c) ==
    /\ i \in 1..Len(endpoints)
    /\ c \in 1..CLIENT_NUM
    /\ BagIn(c, endpoints[i].workers)
    /\ clients[c].pc \in {"sent", "done"}
    /\ recv_log' = recv_log (+) SetToBag({<<endpoints[i].port, c>>})
    /\ endpoints' = [endpoints EXCEPT
            ![i].workers = (@ (-) SetToBag({c})) (+) SetToBag({NextAccept(endpoints[i].sock)})]
    /\ UNCHANGED <<config, main_pc, error, server_locals, c_list, clients, loop_i>>

\* server_thread.__run__, sock.accept() raising on the closed socket: the
\* except clause continues, and the worker calls accept() on the closed socket
\* object again, for ever
WorkerAcceptFail(i) ==
    /\ i \in 1..Len(endpoints)
    /\ endpoints[i].sock = "closed"
    /\ \/ /\ BagIn(AtAccept, endpoints[i].workers)
          /\ endpoints' = [endpoints EXCEPT
                ![i].workers = (@ (-) SetToBag({AtAccept})) (+) SetToBag({AtClosed})]
          /\ UNCHANGED <<config, main_pc, error, server_locals, c_list, clients, loop_i, recv_log>>
       \/ /\ BagIn(AtClosed, endpoints[i].workers)
          /\ UNCHANGED vars

\* ----- CLIENT -----

\* the listening socket a connect() to (localhost, port) reaches, if any
Listener(port) ==
    {i \in 1..Len(endpoints) : endpoints[i].port = port /\ endpoints[i].sock = "listening"}

\* a connect() succeeds when a listening socket has room in its accept queue
CanConnect(port) ==
    \E i \in Listener(port) : Len(endpoints[i].backlog) < endpoints[i].backlog_cap

\* Client.start, one iteration of the for loop; the last one returns and the
\* main program goes on to c.join()
ClientStartIter ==
    /\ main_pc = "client_start"
    /\ Len(c_list) < CLIENT_NUM
    /\ \E tar_index \in 0..(Len(s_ports) - 1) :
         clients' = [clients EXCEPT ![Len(c_list) + 1] =
                        [port |-> s_ports[tar_index + 1], pc |-> "loop", sends |-> 0, open |-> FALSE]]
    /\ c_list' = Append(c_list, Len(c_list) + 1)
    /\ IF Len(c_list) + 1 = CLIENT_NUM
       THEN main_pc' = "join" /\ loop_i' = 1
       ELSE UNCHANGED <<main_pc, loop_i>>
    /\ UNCHANGED <<config, error, server_locals, endpoints, recv_log>>

\* client_thread.connect reaching any listening endpoint of the pool, not the
\* one of self.addr
ClientConnect_anyport(c) ==
    /\ c \in 1..CLIENT_NUM
    /\ clients[c].pc = "loop"
    /\ \E i \in 1..Len(endpoints) :
         /\ endpoints[i].sock = "listening"
         /\ Len(endpoints[i].backlog) < endpoints[i].backlog_cap
         /\ endpoints' = [endpoints EXCEPT ![i].backlog = Append(endpoints[i].backlog, c)]
    /\ clients' = [clients EXCEPT ![c].pc = "connected", ![c].open = TRUE]
    /\ UNCHANGED <<config, main_pc, error, server_locals, c_list, loop_i, recv_log>>

\* client_thread.connect: socket() opens s, settimeout, connect() succeeds
ClientConnect(c) ==
    /\ c \in 1..CLIENT_NUM
    /\ clients[c].pc = "loop"
    /\ CanConnect(clients[c].port)
    /\ \E i \in Listener(clients[c].port) :
         endpoints' = [endpoints EXCEPT ![i].backlog = Append(endpoints[i].backlog, c)]
    /\ clients' = [clients EXCEPT ![c].pc = "connected", ![c].open = TRUE]
    /\ UNCHANGED <<config, main_pc, error, server_locals, c_list, loop_i, recv_log>>

\* client_thread.connect: socket() opens s, connect() raises socket.error
\* (refused, or timed out on a full accept queue); the except clause is entered
ClientConnectFail(c) ==
    /\ c \in 1..CLIENT_NUM
    /\ clients[c].pc = "loop"
    /\ ~CanConnect(clients[c].port)
    /\ clients' = [clients EXCEPT ![c].pc = "failed", ![c].open = TRUE]
    /\ UNCHANGED <<config, main_pc, error, server_locals, endpoints, c_list, loop_i, recv_log>>

\* client_thread.connect: s.send(TEST_MSG) on the connected socket
ClientSend(c) ==
    /\ c \in 1..CLIENT_NUM
    /\ clients[c].pc = "connected"
    /\ clients' = [clients EXCEPT ![c].pc = "sent", ![c].sends = @ + 1]
    /\ UNCHANGED <<config, main_pc, error, server_locals, endpoints, c_list, loop_i, recv_log>>

\* client_thread.run ending after one attempt, whatever connect() returned
client_run_noretry(returned) == "done"

\* client_thread.run repeating the attempt whatever connect() returned
client_run_always(returned) == "loop"

\* the position of client_thread.run after connect() has closed its socket and
\* returned: True ends the while loop, False repeats it
client_run(returned) == IF returned THEN "done" ELSE "loop"

\* client_thread.connect closing its socket only where the try block ends well
ClientClose_leak(c) ==
    /\ c \in 1..CLIENT_NUM
    /\ clients[c].pc \in {"sent", "failed"}
    /\ clients' = [clients EXCEPT ![c].pc = client_run(clients[c].pc = "sent"),
                                  ![c].open = (clients[c].pc = "failed")]
    /\ UNCHANGED <<config, main_pc, error, server_locals, endpoints, c_list, loop_i, recv_log>>

\* client_thread.connect: return True after send, return False in the except
\* clause; finally s.close() on both paths; then the returned value decides
\* the while loop of client_thread.run
ClientClose(c) ==
    /\ c \in 1..CLIENT_NUM
    /\ clients[c].pc \in {"sent", "failed"}
    /\ clients' = [clients EXCEPT ![c].pc = client_run(clients[c].pc = "sent"),
                                  ![c].open = FALSE]
    /\ UNCHANGED <<config, main_pc, error, server_locals, endpoints, c_list, loop_i, recv_log>>

\* Client.join without waiting for the thread
ClientJoin_nowait ==
    /\ main_pc = "join"
    /\ IF loop_i = Len(c_list)
       THEN main_pc' = "server_stop" /\ loop_i' = 1 /\ c_list' = <<>>
       ELSE loop_i' = loop_i + 1 /\ UNCHANGED <<main_pc, c_list>>
    /\ UNCHANGED <<config, error, server_locals, endpoints, clients, recv_log>>

\* Client.join, one iteration: i.join() returns once thread i has terminated;
\* after the last one c_list is deleted and the main program goes on to s.stop()
ClientJoin ==
    /\ main_pc = "join"
    /\ clients[c_list[loop_i]].pc = "done"
    /\ IF loop_i = Len(c_list)
       THEN main_pc' = "server_stop" /\ loop_i' = 1 /\ c_list' = <<>>
       ELSE loop_i' = loop_i + 1 /\ UNCHANGED <<main_pc, c_list>>
    /\ UNCHANGED <<config, error, server_locals, endpoints, clients, recv_log>>

\* ----- SERVER, stop -----

\* server_thread.stop without the lock.release() call
StopRelease_norelease ==
    /\ main_pc = "server_stop"
    /\ main_pc' = "server_close"
    /\ UNCHANGED <<config, error, server_locals, endpoints, c_list, clients, loop_i, recv_log>>

\* Server.stop, i.stop(), lock.release(): releasing an unlocked lock raises
\* RuntimeError, which leaves stop and the main program
StopRelease ==
    /\ main_pc = "server_stop"
    /\ IF endpoints[s_list[loop_i]].lock
       THEN /\ endpoints' = [endpoints EXCEPT ![s_list[loop_i]].lock = FALSE]
            /\ main_pc' = "server_close"
            /\ UNCHANGED error
       ELSE /\ main_pc' = "raised"
            /\ error' = "RuntimeError"
            /\ UNCHANGED endpoints
    /\ UNCHANGED <<config, server_locals, c_list, clients, loop_i, recv_log>>

\* Server.stop, i.stop(), sock.close(); after the last endpoint s_list is
\* deleted and the main program ends
StopClose ==
    /\ main_pc = "server_close"
    /\ endpoints' = [endpoints EXCEPT ![s_list[loop_i]].sock = "closed"]
    /\ IF loop_i = Len(s_list)
       THEN main_pc' = "done" /\ s_list' = <<>> /\ UNCHANGED loop_i
       ELSE main_pc' = "server_stop" /\ loop_i' = loop_i + 1 /\ UNCHANGED s_list
    /\ UNCHANGED <<config, error, s_port, s_counter, s_ports, bind_log, c_list, clients, recv_log>>

MainStep ==
    \/ ServerStartIter
    \/ ServerStartReturn
    \/ ClientStartIter
    \/ ClientJoin
    \/ StopRelease
    \/ StopClose

CoordStep(i) == CoordLaunch(i) \/ CoordAcquire(i)

WorkerStep(i) ==
    \/ WorkerAccept(i)
    \/ \E c \in 1..MaxClients : WorkerRecv(i, c)
    \/ WorkerAcceptFail(i)

ClientStep(c) ==
    \/ ClientConnect(c)
    \/ ClientConnectFail(c)
    \/ ClientSend(c)
    \/ ClientClose(c)

Next ==
    \/ MainStep
    \/ \E i \in 1..MaxServers + 1 : CoordStep(i)
    \/ \E i \in 1..MaxServers + 1 : WorkerStep(i)
    \/ \E c \in 1..MaxClients : ClientStep(c)

Spec == Init /\ [][Next]_vars

\* Fair scheduling: the main thread and every thread the program starts keeps
\* taking steps while it has one to take. Nothing more is assumed.
Fairness ==
    /\ WF_vars(MainStep)
    /\ \A i \in 1..MaxServers + 1 : WF_vars(CoordStep(i))
    /\ \A i \in 1..MaxServers + 1 : WF_vars(WorkerAccept(i))
    /\ \A i \in 1..MaxServers + 1, c \in 1..MaxClients : WF_vars(WorkerRecv(i, c))
    /\ \A c \in 1..MaxClients : WF_vars(ClientStep(c))

\* The progress of a client driver depends on the one endpoint it targets: on the
\* room in that endpoint's accept queue and on that endpoint's workers. The runs
\* checked for progress are those of a pool of one requested endpoint, which all
\* the drivers of the burst contend for.
LiveInit == Init /\ SERVER_NUM = 1

LiveSpec == LiveInit /\ [][Next]_vars /\ Fairness

\* The end of a coordinator thread depends on the order of its own steps and the
\* steps of Server.stop over the endpoints of the pool, not on the size of the
\* burst. The runs checked for it are those of pools of every size with one
\* acceptor worker per endpoint and a burst of two drivers.
CoordLiveInit == Init /\ THREAD_NUM = 1 /\ CLIENT_NUM = 2

CoordLiveSpec == CoordLiveInit /\ [][Next]_vars /\ Fairness

\* ----- vocabulary of the properties -----

StartErrors == {"OSError", "OverflowError"}

\* Server.start is over: it returned or an exception left it
StartOver == main_pc # "server_start"

\* Server.start returned a list to the main program
StartReturned == StartOver /\ error \notin StartErrors

\* Client.join has returned
JoinReturned ==
    \/ main_pc \in {"server_stop", "server_close", "done"}
    \/ error = "RuntimeError"

ClientIds == 1..CLIENT_NUM

\* successful binds among the first k construction attempts
OkBefore(k) == Cardinality({j \in 1..(k - 1) : bind_log[j].res = "ok"})

\* ports start found held by another socket
InUse == {bind_log[k].port : k \in {j \in 1..Len(bind_log) : bind_log[j].res = "OSError"}}

\* the base port was free: binding it succeeded
BaseFree == bind_log # <<>> /\ bind_log[1].res = "ok"

\* ports from the base port to the end of the range not known to be held
Obtainable == {p \in PORT..MaxPortNumber : p \notin InUse}

\* C1: with a free base port, start returns exactly N distinct ports, all >= the
\* base port, strictly ascending, the i-th being the port of the i-th endpoint.
C1_StartReturnsNPorts ==
    (StartOver /\ BaseFree) =>
        /\ error \notin StartErrors
        /\ Len(s_ports) = SERVER_NUM
        /\ \A i \in 1..Len(s_ports) : s_ports[i] >= PORT
        /\ \A i, j \in 1..Len(s_ports) : i < j => s_ports[i] < s_ports[j]
        /\ \A i \in 1..Len(s_ports) : endpoints[i].port = s_ports[i]

\* C2: a bind failure on a port in use does not end start: the port is not
\* counted and the loop goes on with the next one; with the base port occupied,
\* the next port free and N = 1, start returns that next port.
C2_SkipsOccupiedPort ==
    /\ \A k \in 1..Len(bind_log) : bind_log[k].res = "OSError" => error # "OSError"
    /\ (StartOver /\ SERVER_NUM = 1 /\ PORT \in InUse /\ PORT < MaxPortNumber) =>
            (StartReturned /\ Len(s_ports) <= 1 /\ \A i \in 1..Len(s_ports) : s_ports[i] > PORT)

\* C3: the allocation loop ends by returning; no bind is attempted after the
\* N-th success, and none on a port above 65535.
C3_LoopStopsAtBounds ==
    /\ error \notin StartErrors
    /\ \A k \in 1..Len(bind_log) :
          /\ bind_log[k].port <= MaxPortNumber
          /\ OkBefore(k) < SERVER_NUM

\* C4: base port 65535 and N = 1: exactly one bind attempt, on 65535; if it
\* fails start returns no port and NO_PORT_TO_USE is raised, no client launched.
C4_BoundaryPort ==
    (StartOver /\ PORT = MaxPortNumber /\ SERVER_NUM = 1) =>
        /\ Len(bind_log) = 1
        /\ bind_log[1].port = MaxPortNumber
        /\ bind_log[1].res # "ok" =>
              /\ error = "NO_PORT_TO_USE"
              /\ s_ports = <<>>
              /\ \A c \in ClientIds : clients[c].pc = "idle"

\* C5: when fewer than N ports can be bound from the base port to the end of
\* the range, start returns normally, with fewer than N ports.
C5_ReturnsFewerPorts ==
    (StartOver /\ Cardinality(Obtainable) < SERVER_NUM) =>
        /\ error \notin StartErrors
        /\ Len(s_ports) < SERVER_NUM

\* C6: when start has returned every returned port belongs to an owned endpoint
\* whose socket is listening; no client driver exists before that, and while a
\* driver is attempting, its target is a listening socket.
C6_ListeningBeforeClients ==
    /\ main_pc \in {"client_start", "join"} =>
          /\ Len(s_list) = Len(s_ports)
          /\ \A i \in 1..Len(s_ports) :
                /\ endpoints[s_list[i]].port = s_ports[i]
                /\ endpoints[s_list[i]].sock = "listening"
    /\ \A c \in ClientIds :
          /\ clients[c].pc # "idle" => StartReturned
          /\ clients[c].pc \notin {"idle", "done"} => Listener(clients[c].port) # {}

\* C6 witness: two endpoints returned, a driver connected to one of them
C6_Witness ==
    /\ main_pc = "join"
    /\ Len(s_ports) = 2
    /\ \E c \in ClientIds : clients[c].pc = "connected"

\* C7: Server.stop does not begin (no lock released, no socket closed) while a
\* client driver is still running.
C7_StopAfterClients ==
    (\/ main_pc \in {"server_stop", "server_close", "done"}
     \/ error = "RuntimeError"
     \/ \E i \in 1..Len(endpoints) : endpoints[i].sock = "closed")
        => \A c \in ClientIds : clients[c].pc = "done"

\* C7 witness: stop is closing an endpoint's socket after a burst of two
C7_Witness ==
    /\ main_pc = "server_close"
    /\ CLIENT_NUM = 2

\* C8: when join has returned, each of the client_count drivers has terminated
\* with exactly one successful connect-and-send; no driver ever has more.
C8_JoinAfterOneSendEach ==
    /\ JoinReturned => \A c \in ClientIds : clients[c].pc = "done" /\ clients[c].sends = 1
    /\ \A c \in ClientIds : clients[c].pc = "done" => clients[c].sends = 1
    /\ \A c \in ClientIds : clients[c].sends <= 1

\* C8 witness: join has just returned for two drivers of one single-acceptor endpoint
C8_Witness ==
    /\ main_pc = "server_stop"
    /\ CLIENT_NUM = 2
    /\ THREAD_NUM = 1
    /\ clients[1].port = clients[2].port

C10_ClientsFinish ==
    /\ (main_pc = "client_start") ~>
          (JoinReturned /\ \A c \in ClientIds : clients[c].pc = "done" /\ clients[c].sends = 1)
    /\ \A c \in 1..MaxClients :
          (c \in ClientIds /\ clients[c].pc = "loop")
              ~> (c \in ClientIds /\ clients[c].pc \in {"connected", "failed"})

\* C10 witness: an attempt has failed and is about to be retried
C10_Witness ==
    /\ main_pc = "join"
    /\ \E c \in ClientIds : clients[c].pc = "failed"

\* the main thread has ended, normally or by an exception
MainEnded == main_pc \in {"done", "raised"}

\* Client.start has returned
ClientStartReturned == main_pc = "join" \/ JoinReturned

\* server_thread.stop has been called on endpoint i and has released its lock
Released(i) ==
    \/ main_pc = "done"
    \/ main_pc = "server_close" /\ loop_i >= i
    \/ main_pc = "server_stop" /\ loop_i > i
    \/ error = "RuntimeError" /\ loop_i > i

\* the clients whose connection endpoint i holds, queued or accepted
HeldBy(i) ==
    {endpoints[i].backlog[k] : k \in 1..Len(endpoints[i].backlog)}
        \cup (BagToSet(endpoints[i].workers) \ {AtAccept, AtClosed})

\* C11: connect() returns True exactly when connect and send both succeeded and
\* False after a socket error, and its socket is closed when it returns: a
\* driver holds an open socket only inside an attempt, it has ended (connect
\* returned True) or is past the send exactly when its one send succeeded, and
\* it is between attempts or in the except clause only with no send made.
C11_ConnectClosesSocket ==
    \A c \in ClientIds :
        /\ clients[c].pc \in {"idle", "loop", "done"} => ~clients[c].open
        /\ clients[c].pc \in {"connected", "sent", "failed"} => clients[c].open
        /\ clients[c].pc \in {"sent", "done"} <=> clients[c].sends = 1
        /\ clients[c].pc \in {"idle", "loop", "connected", "failed"} <=> clients[c].sends = 0

\* C11 witness: one driver has returned True with its socket closed while
\* another is in the except clause of a refused attempt
C11_Witness ==
    \E c, d \in ClientIds :
        /\ clients[c].pc = "done" /\ ~clients[c].open
        /\ clients[d].pc = "failed" /\ clients[d].open

\* C12: once stop() has been called after start(), every bound port's socket is
\* closed, in every interleaving.
C12_StopClosesEveryPort ==
    (JoinReturned /\ MainEnded) =>
        \A i \in 1..Len(endpoints) : endpoints[i].sock = "closed"

\* C13: the only failure that leaves the core is the port-exhaustion condition
\* of start; every other error is absorbed where it occurs.
C13_OnlyPortExhaustionPropagates ==
    error \in {"none", "NO_PORT_TO_USE"}

\* C14: every port of the list start returns lies in [base port, 65535).
C14_ReturnedPortsInRange ==
    StartReturned =>
        \A i \in 1..Len(s_ports) : PORT <= s_ports[i] /\ s_ports[i] < MaxPortNumber

\* C14 witness: start has returned two ports
C14_Witness ==
    /\ main_pc = "client_start"
    /\ Len(s_ports) = 2

\* the connections client c has made: those queued, those being read, those read
ConnectionsOf(c) ==
    Cardinality({ik \in (1..Len(endpoints)) \X (1..MaxClients) :
                    ik[2] <= Len(endpoints[ik[1]].backlog) /\ endpoints[ik[1]].backlog[ik[2]] = c})
    + Cardinality({i \in 1..Len(endpoints) : BagIn(c, endpoints[i].workers)})
    + Cardinality({pc \in BagToSet(recv_log) : pc[2] = c})

\* C15: Client.start launches exactly client_count drivers; a driver's target is
\* one of the returned ports; every connection it makes or has made is to that
\* target; a driver ends only after an attempt that returned True (a failed one
\* leaves it in its loop), and it makes one successful attempt and no more.
C15_DriversKeepTarget ==
    /\ ClientStartReturned => \A c \in ClientIds : clients[c].pc # "idle"
    /\ \A c \in ClientIds :
          /\ (clients[c].pc # "idle") <=> (c <= Len(c_list) \/ JoinReturned)
          /\ clients[c].pc # "idle" => \E k \in 1..Len(s_ports) : clients[c].port = s_ports[k]
          /\ clients[c].pc = "done" => clients[c].sends = 1
          /\ clients[c].sends <= 1
          /\ ConnectionsOf(c) = IF clients[c].pc \in {"connected", "sent", "done"} THEN 1 ELSE 0
    /\ \A i \in 1..Len(endpoints) : \A c \in HeldBy(i) : clients[c].port = endpoints[i].port
    /\ \A pc \in BagToSet(recv_log) : clients[pc[2]].port = pc[1] /\ CopiesIn(pc, recv_log) = 1

\* C15 witness: two drivers with different targets, one connected, one done
C15_Witness ==
    /\ CLIENT_NUM = 2
    /\ clients[1].pc = "done"
    /\ clients[2].pc = "connected"
    /\ clients[1].port # clients[2].port

C17_NoAcceptAfterClose ==
    [][\A i \in 1..Len(endpoints) :
            /\ BagCardinality(endpoints[i].workers) <= BagCardinality(endpoints'[i].workers)
            /\ endpoints[i].sock = "closed" => endpoints'[i].backlog = endpoints[i].backlog]_vars

\* C18: when server_thread.stop calls lock.release() the lock is held; stop
\* never releases an unlocked lock.
C18_ReleaseOfHeldLock ==
    /\ error # "RuntimeError"
    /\ main_pc = "server_stop" => endpoints[s_list[loop_i]].run_pc = "acquire2"

\* C19: a coordinator thread does not end before stop has been called on its
\* endpoint, and once Server.stop has completed every coordinator thread
\* eventually ends.
C19_CoordinatorsEndAfterStop ==
    /\ [](\A i \in 1..Len(endpoints) :
            /\ endpoints[i].run_pc = "done" => Released(i)
            /\ (endpoints[i].run_pc = "acquire2" /\ ~Released(i)) => endpoints[i].lock)
    /\ (main_pc = "done") ~> (\A i \in 1..Len(endpoints) : endpoints[i].run_pc = "done")

\* C19 witness: stop has completed on a pool of two endpoints and both
\* coordinator threads have ended
C19_Witness ==
    /\ main_pc = "done"
    /\ Len(endpoints) = 2
    /\ \A i \in 1..Len(endpoints) : endpoints[i].run_pc = "done"

\* C20: every endpoint start has started is stopped on every path of a run:
\* when the main thread has ended, each one has had its lock released and its
\* socket closed.
C20_StartedEndpointsStopped ==
    MainEnded =>
        \A i \in 1..Len(endpoints) : endpoints[i].sock = "closed" /\ Released(i)

====
